---- MODULE Spec2Model ----
(***************************************************************************)
(* Model of src/monitor.py: the polling loop Monitoring.monitor, the       *)
(* sample generator Monitoring.get_prices behind the retrying session of   *)
(* create_retry_session, the evaluator Monitoring.compare_prices and the   *)
(* reporter Monitoring.display_update.                                     *)
(*                                                                         *)
(* Time is counted in units of the tick sleep (0.5 s).  Prices and the     *)
(* threshold are integers; the percentage change 100*(c-i)/i is kept as an *)
(* exact fraction, which is what the float computation yields for the      *)
(* small integral prices enumerated here.                                  *)
(***************************************************************************)
EXTENDS Integers, Sequences, FiniteSets

\* ---- bounds of the model ----
MaxSamples == 4
MaxLatency == 1

\* ---- program constants ----
retries == 5
TickSleep == 1

\* main(), line 84: the default symbol
symbol == "ETHUSDT"

\* Monitoring.__init__, lines 11, 21: BASE_API_ENDPOINT.format(symbol=...)
ApiEndpoint(sym) == <<"https://fapi.binance.com/fapi/v1/ticker/24hr?symbol=", sym>>

\* ---- enumerated inputs ----
Prices == {0, 100, 101, 102}
Thresholds == {-1, 0, 1}
TimeIntervals == {0, 2, 3}

VARIABLES
    pc,                 \* position of the loop
    initial,            \* self.initial
    update,             \* loop variable `update`
    percent_threshold,  \* self.percent_threshold
    time_interval,      \* self.time_interval
    now,                \* time.monotonic()
    attempts,           \* transport attempts made by the current session.get
    total,              \* Retry.total left for the current session.get
    err,                \* exception that left monitor(), "none" if none
    out,                \* lines printed, in order
    n,                  \* history: number of samples yielded
    refAtYield,         \* history: self.initial when `update` was yielded
    spacings,           \* history: set of ts differences of consecutive samples
    evals,              \* history: calls of compare_prices, in order
    failures,           \* history: failed attempts of the current session.get
    interrupted,        \* history: a KeyboardInterrupt was raised in monitor()
    api_endpoint,       \* self.api_endpoint
    last,               \* history: outcome of the last transport attempt
    sleeps,             \* history: number of time.sleep(0.5) calls
    excursion           \* history: a sample inside the open window was beyond the threshold

vars == <<pc, initial, update, percent_threshold, time_interval, now, attempts,
          total, err, out, n, refAtYield, spacings, evals, failures, interrupted,
          api_endpoint, last, sleeps, excursion>>

\* Python's None for self.initial (a sample has idx >= 1)
None == [price |-> -1, ts |-> -1, idx |-> 0]

\* Update(price, price_change, price_change_percent, ts); the two
\* informational fields take no part in any decision and are left out,
\* idx is the ordinal of the sample in the run.
Update(price, ts, idx) == [price |-> price, ts |-> ts, idx |-> idx]

Line(kind, dir, idx) == [kind |-> kind, dir |-> dir, idx |-> idx]

\* history record of one call compare_prices(i, c)
Evaluation(i, c) == [ref |-> i.idx, refTs |-> i.ts, cur |-> c.idx, curTs |-> c.ts]

Abs(x) == IF x < 0 THEN -x ELSE x

\* `a or b` on Optional[Update]: a namedtuple of four fields is truthy
Or(a, b) == IF a = None THEN b ELSE a

Running == {"get", "attempt", "decide", "compare", "reset", "report", "sleep"}

Init ==
    /\ pc = "get"
    /\ initial = None
    /\ update = None
    /\ percent_threshold \in Thresholds
    /\ time_interval \in TimeIntervals
    /\ now = 0
    /\ attempts = 0
    /\ total = retries
    /\ err = "none"
    /\ out = <<>>
    /\ n = 0
    /\ refAtYield = None
    /\ spacings = {}
    /\ evals = <<>>
    /\ failures = 0
    /\ interrupted = FALSE
    /\ api_endpoint = ApiEndpoint(symbol)
    /\ last = "none"
    /\ sleeps = 0
    /\ excursion = FALSE

\* ---- Monitoring.monitor, line 31: has the window passed? ----
WindowElapsedInverted(ref, cur, interval) == cur.ts - ref.ts <= interval

WindowElapsedStrict(ref, cur, interval) == cur.ts - ref.ts > interval

WindowElapsedSelf(ref, cur, interval) == cur.ts - cur.ts >= interval

WindowElapsed(ref, cur, interval) == cur.ts - ref.ts >= interval

\* ---- Monitoring.monitor, line 33: the reference after an evaluation ----
NewReferenceAligned(ref, cur, interval) == [cur EXCEPT !.ts = ref.ts + interval]

NewReferenceCleared(ref, cur, interval) == None

NewReferenceKept(ref, cur, interval) == ref

NewReference(ref, cur, interval) == cur

\* ---- create_retry_session: Retry(total=retries) ----
\* urllib3 decrements `total` on every failed attempt (Retry.increment) and
\* gives up with MaxRetryError once the decremented value is below zero
\* (Retry.is_exhausted), so `total` counts retries, not attempts.
IsExhaustedAtZero(t) == t <= 0

IsExhausted(t) == t < 0

\* ---- Monitoring.compare_prices ----
\* line 53: 100 * (current.price - initial.price) / initial.price, as a fraction
PercentageChange(i, c) == [num |-> 100 * (c.price - i.price), den |-> i.price]

\* line 54: abs(percentage_change) > self.percent_threshold  (den # 0)
ExceedsThresholdOrEqual(p, threshold) == Abs(p.num) >= threshold * Abs(p.den)

ExceedsThreshold(p, threshold) == Abs(p.num) > threshold * Abs(p.den)

\* line 55: "increased" if percentage_change > 0 else "decreased"
DirectionSwapped(p) == IF p.num * p.den > 0 THEN "decreased" ELSE "increased"

Direction(p) == IF p.num * p.den > 0 THEN "increased" ELSE "decreased"

ComparePricesLinesOnlyOnAlert(i, c, threshold) ==
    LET p == PercentageChange(i, c) IN
    IF ExceedsThreshold(p, threshold)
       THEN <<Line("alert", Direction(p), c.idx), Line("price", "", c.idx)>>
       ELSE <<>>

\* lines 54-59: the lines compare_prices prints
ComparePricesLines(i, c, threshold) ==
    LET p == PercentageChange(i, c) IN
    (IF ExceedsThreshold(p, threshold)
        THEN <<Line("alert", Direction(p), c.idx)>>
        ELSE <<>>)
    \o <<Line("price", "", c.idx)>>

\* ---- Monitoring.display_update: the four lines of one sample report ----
DisplayUpdateLines(u) == <<Line("report", "", u.idx)>>

\* history: sample u lies inside the window opened by ref and its price is
\* further from the reference price than the threshold allows
InsideBeyondThreshold(ref, u) ==
    /\ u.ts - ref.ts < time_interval
    /\ ref.price > 0
    /\ 100 * Abs(u.price - ref.price) > percent_threshold * ref.price

\* ---- Monitoring.get_prices ----
\* line 42, entry of session.get: a fresh Retry(total=retries) per request
BeginGet ==
    /\ pc = "get"
    /\ n < MaxSamples
    /\ attempts' = 0
    /\ total' = retries
    /\ pc' = "attempt"
    /\ UNCHANGED <<initial, update, percent_threshold, time_interval, now, err,
                   out, n, refAtYield, spacings, evals, interrupted,
                   api_endpoint, sleeps, excursion>>
    /\ failures' = 0
    /\ last' = "none"

\* lines 42-48: the transport answers with a ticker, a sample is yielded
AttemptOk ==
    /\ pc = "attempt"
    /\ \E price \in Prices, lat \in 0..MaxLatency :
          /\ update' = Update(price, now + lat, n + 1)
          /\ now' = now + lat
          /\ spacings' = IF n = 0 THEN {} ELSE spacings \cup {now + lat - update.ts}
    /\ attempts' = attempts + 1
    /\ n' = n + 1
    /\ refAtYield' = initial
    /\ pc' = "decide"
    /\ UNCHANGED <<initial, percent_threshold, time_interval, total, err, out, evals, failures, interrupted,
                   api_endpoint, sleeps, excursion>>
    /\ last' = "ok"

AttemptTransientRestart ==
    /\ pc = "attempt"
    /\ attempts' = attempts + 1
    /\ failures' = failures + 1
    /\ IF IsExhausted(total - 1)
          THEN /\ pc' = "sleep"
               /\ total' = total
          ELSE /\ pc' = "attempt"
               /\ total' = total - 1
    /\ UNCHANGED <<initial, update, percent_threshold, time_interval, now, out,
                   n, refAtYield, spacings, evals, interrupted, err,
                   api_endpoint, sleeps, excursion>>
    /\ last' = "transient"

\* lines 42, 49-50: connection error or HTTP 500/502/503/504; the adapter
\* retries while the budget lasts, then requests raises a RequestException
\* and get_prices turns it into RuntimeError
AttemptTransient ==
    /\ pc = "attempt"
    /\ attempts' = attempts + 1
    /\ IF IsExhausted(total - 1)
          THEN /\ pc' = "failed"
               /\ err' = "RuntimeError"
               /\ total' = total
          ELSE /\ pc' = "attempt"
               /\ err' = err
               /\ total' = total - 1
    /\ UNCHANGED <<initial, update, percent_threshold, time_interval, now, out,
                   n, refAtYield, spacings, evals, interrupted,
                   api_endpoint, sleeps, excursion>>
    /\ failures' = failures + 1
    /\ last' = "transient"

\* lines 42-50: answers that the adapter does not retry.  A body that is not
\* JSON makes response.json() raise requests' JSONDecodeError, a
\* RequestException that line 50 turns into RuntimeError; a JSON body without lastPrice, priceChange or priceChangePercent
\* makes lines 44-46 raise KeyError; an HTTP 4xx answer is not in
\* status_forcelist and is not checked by get_prices, so its body decides.
NonRetryable == {"badjson", "missing", "http4xx"}

ExceptionsOf(kind) ==
    CASE kind = "badjson" -> {"RuntimeError"}
      [] kind = "missing" -> {"KeyError"}
      [] kind = "http4xx" -> {"KeyError", "RuntimeError"}

AttemptNonRetryable ==
    /\ pc = "attempt"
    /\ attempts' = attempts + 1
    /\ \E kind \in NonRetryable :
          /\ last' = kind
          /\ err' \in ExceptionsOf(kind)
    /\ pc' = "failed"
    /\ UNCHANGED <<initial, update, percent_threshold, time_interval, now, out,
                   total, n, refAtYield, spacings, evals, failures, interrupted,
                   api_endpoint, sleeps, excursion>>

\* ---- Monitoring.monitor ----
\* lines 30-31.  The request that produced `update` is over when the loop
\* body starts: its Retry object and the counts of its attempts are dropped.
Decide ==
    /\ pc = "decide"
    /\ initial' = Or(initial, update)
    /\ pc' = IF WindowElapsed(initial', update, time_interval)
                THEN "compare" ELSE "report"
    /\ attempts' = 0
    /\ failures' = 0
    /\ total' = retries
    /\ UNCHANGED <<update, percent_threshold, time_interval, now, err, out, n,
                   refAtYield, spacings, evals, interrupted, api_endpoint,
                   last, sleeps>>
    /\ excursion' = (excursion \/ InsideBeyondThreshold(Or(initial, update), update))

ComparePricesAdaptsThreshold ==
    /\ pc = "compare"
    /\ evals' = Append(evals, Evaluation(initial, update))
    /\ IF initial.price = 0
          THEN /\ pc' = "failed"
               /\ err' = "ZeroDivisionError"
               /\ out' = out
               /\ percent_threshold' = percent_threshold
          ELSE /\ pc' = "reset"
               /\ err' = err
               /\ out' = out \o ComparePricesLines(initial, update, percent_threshold)
               /\ percent_threshold' =
                     IF ExceedsThreshold(PercentageChange(initial, update), percent_threshold)
                        THEN percent_threshold + 1 ELSE percent_threshold
    /\ UNCHANGED <<initial, update, time_interval, now, attempts, total, n,
                   refAtYield, spacings, failures, interrupted, api_endpoint,
                   last, sleeps, excursion>>

ComparePricesAlertsOnExcursion ==
    /\ pc = "compare"
    /\ evals' = Append(evals, Evaluation(initial, update))
    /\ IF initial.price = 0
          THEN /\ pc' = "failed"
               /\ err' = "ZeroDivisionError"
               /\ out' = out
          ELSE /\ pc' = "reset"
               /\ err' = err
               /\ out' = out \o
                     (IF excursion
                         THEN <<Line("alert", Direction(PercentageChange(initial, update)),
                                     update.idx),
                                Line("price", "", update.idx)>>
                         ELSE ComparePricesLines(initial, update, percent_threshold))
    /\ UNCHANGED <<initial, update, percent_threshold, time_interval, now,
                   attempts, total, n, refAtYield, spacings, failures,
                   interrupted, api_endpoint, last, sleeps, excursion>>

ComparePricesZeroSilent ==
    /\ pc = "compare"
    /\ evals' = Append(evals, Evaluation(initial, update))
    /\ pc' = "reset"
    /\ out' = IF initial.price = 0
                 THEN out \o <<Line("price", "", update.idx)>>
                 ELSE out \o ComparePricesLines(initial, update, percent_threshold)
    /\ UNCHANGED <<initial, update, percent_threshold, time_interval, now, err,
                   attempts, total, n, refAtYield, spacings, failures,
                   interrupted, api_endpoint, last, sleeps, excursion>>

\* line 32: self.compare_prices(self.initial, update)
ComparePrices ==
    /\ pc = "compare"
    /\ evals' = Append(evals, Evaluation(initial, update))
    /\ IF initial.price = 0
          THEN /\ pc' = "failed"
               /\ err' = "ZeroDivisionError"
               /\ out' = out
          ELSE /\ pc' = "reset"
               /\ err' = err
               /\ out' = out \o ComparePricesLines(initial, update, percent_threshold)
    /\ UNCHANGED <<initial, update, percent_threshold, time_interval, now,
                   attempts, total, n, refAtYield, spacings, failures, interrupted,
                   api_endpoint, last, sleeps, excursion>>

\* line 33: self.initial = update
Reset ==
    /\ pc = "reset"
    /\ initial' = NewReference(initial, update, time_interval)
    /\ pc' = "report"
    /\ UNCHANGED <<update, percent_threshold, time_interval, now, attempts,
                   total, err, out, n, refAtYield, spacings, evals, failures, interrupted,
                   api_endpoint, last, sleeps>>
    /\ excursion' = FALSE

DisplayUpdateSkippedAfterEvaluation ==
    /\ pc = "report"
    /\ out' = IF initial = update THEN out ELSE out \o DisplayUpdateLines(update)
    /\ pc' = "sleep"
    /\ UNCHANGED <<initial, update, percent_threshold, time_interval, now,
                   attempts, total, err, n, refAtYield, spacings, evals,
                   failures, interrupted,
                   api_endpoint, last, sleeps, excursion>>

\* line 34: self.display_update(update)
DisplayUpdate ==
    /\ pc = "report"
    /\ out' = out \o DisplayUpdateLines(update)
    /\ pc' = "sleep"
    /\ UNCHANGED <<initial, update, percent_threshold, time_interval, now,
                   attempts, total, err, n, refAtYield, spacings, evals, failures, interrupted,
                   api_endpoint, last, sleeps, excursion>>

SleepOnlyWithoutEvaluation ==
    /\ pc = "sleep"
    /\ now' = IF initial = update THEN now ELSE now + TickSleep
    /\ sleeps' = IF initial = update THEN sleeps ELSE sleeps + 1
    /\ pc' = "get"
    /\ UNCHANGED <<initial, update, percent_threshold, time_interval, attempts,
                   total, err, out, n, refAtYield, spacings, evals, failures,
                   interrupted, api_endpoint, last, excursion>>

\* line 35: time.sleep(0.5), then the generator is resumed
Sleep ==
    /\ pc = "sleep"
    /\ now' = now + TickSleep
    /\ pc' = "get"
    /\ UNCHANGED <<initial, update, percent_threshold, time_interval, attempts,
                   total, err, out, n, refAtYield, spacings, evals, failures, interrupted,
                   api_endpoint, last, excursion>>
    /\ sleeps' = sleeps + 1

KeyboardInterruptUncaught ==
    /\ pc \in Running
    /\ pc' = "failed"
    /\ err' = "KeyboardInterrupt"
    /\ interrupted' = TRUE
    /\ UNCHANGED <<initial, update, percent_threshold, time_interval, now, out,
                   attempts, total, n, refAtYield, spacings, evals, failures,
                   api_endpoint, last, sleeps, excursion>>

\* lines 36-37: KeyboardInterrupt raised anywhere inside the try block
KeyboardInterrupt ==
    /\ pc \in Running
    /\ pc' = "stopped"
    /\ out' = Append(out, Line("stopped", "", 0))
    /\ UNCHANGED <<initial, update, percent_threshold, time_interval, now,
                   attempts, total, err, n, refAtYield, spacings, evals, failures,
                   api_endpoint, last, sleeps, excursion>>
    /\ interrupted' = TRUE

Next ==
    \/ BeginGet
    \/ AttemptOk
    \/ AttemptTransient
    \/ AttemptNonRetryable
    \/ Decide
    \/ ComparePrices
    \/ Reset
    \/ DisplayUpdate
    \/ Sleep
    \/ KeyboardInterrupt

Spec == Init /\ [][Next]_vars

\* ---- the undisturbed run: every fetch answers with a positive price at the
\* first attempt and no interrupt arrives.  The loop is one sequential
\* thread, so a step that is possible is eventually taken.
AttemptOkPositive ==
    /\ AttemptOk
    /\ update'.price > 0
    /\ failures = 0

NextLive ==
    \/ BeginGet
    \/ AttemptOkPositive
    \/ Decide
    \/ ComparePrices
    \/ Reset
    \/ DisplayUpdate
    \/ Sleep

SpecLive == Init /\ [][NextLive]_vars /\ WF_vars(NextLive)

\* ---- properties ----

Ended == pc \in {"stopped", "failed"}

\* the alert line compare_prices printed for sample i, if any
Alerted(i) == \E k \in 1..Len(out) : out[k].kind = "alert" /\ out[k].idx = i

PriceLine(i) == \E k \in 1..Len(out) : out[k].kind = "price" /\ out[k].idx = i

Evaluated(i) == \E j \in 1..Len(evals) : evals[j].cur = i

\* the sample reports printed so far, in order
IsReportLine(l) == l.kind = "report"

ReportLines == SelectSeq(out, IsReportLine)

\* the first m samples have one report each, in order, and no other has any
ReportedExactly(m) ==
    LET r == ReportLines IN
    /\ Len(r) = m
    /\ \A j \in 1..Len(r) : r[j].idx = j

\* elapsed time of the current sample against the reference held for it
ElapsedAtYield == update.ts - Or(refAtYield, update).ts

\* C1: compare_prices is only called on a sample whose timestamp is at least
\* time_interval past the timestamp of the reference held at that moment, and
\* a sample with a smaller elapsed time causes no call.
C1_NoEvaluationBeforeWindow ==
    /\ \A j \in 1..Len(evals) :
          evals[j].curTs - evals[j].refTs >= time_interval
    /\ (n >= 1 /\ ElapsedAtYield < time_interval) =>
          /\ pc \notin {"compare", "reset"}
          /\ ~Evaluated(update.idx)

C1_Witness ==
    /\ Len(evals) >= 1
    /\ time_interval > 0
    /\ evals[1].cur >= 3
    /\ evals[1].curTs - evals[1].refTs > time_interval

\* C2: on the first sample the reference becomes that sample and there is no
\* window evaluation (no call of compare_prices, no alert, no extra price
\* line), for every time_interval, 0 included.
C2_FirstSampleNeverEvaluated ==
    n >= 1 =>
        /\ ~(pc \in {"compare", "reset"} /\ update.idx = 1)
        /\ ~Evaluated(1)
        /\ ~Alerted(1)
        /\ ~PriceLine(1)

\* C3: once the window decision for a later sample is complete, the reference
\* is that very sample (own price and timestamp) if it closed the window,
\* after an evaluation of the old reference against it, and is the old
\* reference otherwise.
C3_ReferenceIsTriggeringSample ==
    (pc \in {"report", "sleep", "get", "attempt"} /\ n >= 1 /\ refAtYield # None) =>
        IF update.ts - refAtYield.ts >= time_interval
           THEN /\ initial = update
                /\ Len(evals) >= 1
                /\ evals[Len(evals)] = Evaluation(refAtYield, update)
           ELSE /\ initial = refAtYield
                /\ ~Evaluated(update.idx)

C3_Witness ==
    /\ pc = "report"
    /\ refAtYield # None
    /\ time_interval > 0
    /\ update.ts - refAtYield.ts > time_interval
    /\ initial = update
    /\ update.price # refAtYield.price

\* C4: for a reference with a positive price, compare_prices prints the alert
\* exactly when |100*(B-A)/A| > threshold; a change equal to the threshold
\* prints none.
C4_AlertIffAboveThreshold ==
    (pc = "reset" /\ initial.price > 0) =>
        (Alerted(update.idx) <=>
            100 * Abs(update.price - initial.price) > percent_threshold * initial.price)

C4_Witness ==
    /\ pc = "reset"
    /\ initial.price > 0
    /\ percent_threshold > 0
    /\ 100 * Abs(update.price - initial.price) = percent_threshold * initial.price
    /\ ~Alerted(update.idx)

\* C5: an alert between different prices says "increased" exactly when the
\* price rose and "decreased" exactly when it fell; with a non-negative
\* threshold equal prices give no alert.
C5_DirectionMatchesSign ==
    (pc = "reset" /\ initial.price > 0) =>
        /\ \A k \in 1..Len(out) :
              (/\ out[k].kind = "alert"
               /\ out[k].idx = update.idx
               /\ update.price # initial.price) =>
                  /\ out[k].dir = "increased" <=> update.price > initial.price
                  /\ out[k].dir = "decreased" <=> update.price < initial.price
        /\ (percent_threshold >= 0 /\ update.price = initial.price) =>
              ~Alerted(update.idx)

C5_Witness ==
    /\ pc = "reset"
    /\ initial.price > update.price
    /\ \E k \in 1..Len(out) :
          out[k] = Line("alert", "decreased", update.idx)

C7_FetchErrorIsFatal ==
    /\ [](failures > retries => (pc = "failed" /\ err = "RuntimeError" /\ ~interrupted))
    /\ [][failures > retries =>
            UNCHANGED <<pc, initial, update, out, n, evals, attempts, err>>]_vars

C7_Witness ==
    /\ failures > retries
    /\ pc = "failed"
    /\ n >= 2
    /\ Len(evals) >= 1

\* C8: an interrupt raised at any position of the loop ends monitor()
\* normally, with the stop message as the last line and no error, nothing
\* happens after it, and no other condition ends monitor() this way.
C8_InterruptStopsCleanly ==
    /\ [](interrupted =>
            /\ pc = "stopped"
            /\ err = "none"
            /\ Len(out) >= 1
            /\ out[Len(out)] = Line("stopped", "", 0))
    /\ []((pc = "stopped" \/ \E k \in 1..Len(out) : out[k].kind = "stopped")
            => interrupted)
    /\ [][interrupted => UNCHANGED vars]_vars
    /\ [][(pc \in Running /\ pc' = "stopped") => interrupted']_vars

C8_Witness ==
    /\ interrupted
    /\ pc = "stopped"
    /\ failures >= 1
    /\ n >= 1

\* C9 as stated: every sample yielded is reported exactly once before the
\* next fetch or before the run ends.
C9_EverySampleReported ==
    (pc \in {"get", "attempt"} \/ Ended) => ReportedExactly(n)

\* C9 amended: every sample is reported at most once, and exactly once before
\* the next fetch; at the end of a run only the last sample can be unreported,
\* and only when an interrupt or the evaluation's division by zero ended the
\* run before its report.
C9_ReportedOnceUnlessRunEndsFirst ==
    /\ ReportedExactly(n) \/ (n >= 1 /\ ReportedExactly(n - 1))
    /\ pc \in {"sleep", "get", "attempt"} => ReportedExactly(n)
    /\ (Ended /\ ~ReportedExactly(n)) =>
          (interrupted \/ err = "ZeroDivisionError")

C9_Witness ==
    /\ pc = "sleep"
    /\ n >= 2
    /\ Evaluated(n)
    /\ Alerted(n)
    /\ ReportedExactly(n)

\* C10: with samples at a fixed spacing d and a window of k*d the n-th
\* evaluation is on sample n*k+1 against sample (n-1)*k+1, which was made the
\* reference by the previous evaluation, and no other sample is evaluated.
C10_FixedSpacingSchedule ==
    \A d \in 1..(TickSleep + MaxLatency), k \in 1..time_interval :
        (time_interval = k * d /\ spacings \subseteq {d}) =>
            /\ \A j \in 1..Len(evals) :
                  /\ evals[j].ref = (j - 1) * k + 1
                  /\ evals[j].cur = j * k + 1
            /\ (n >= 1 /\ pc \in {"reset", "report", "sleep", "get", "attempt"}) =>
                  Len(evals) = (n - 1) \div k
            /\ (n >= 1 /\ pc \in {"report", "sleep", "get", "attempt"}) =>
                  initial.idx = ((n - 1) \div k) * k + 1

C10_Witness ==
    /\ time_interval = 2
    /\ spacings = {1}
    /\ n = 4
    /\ pc = "report"
    /\ Len(evals) = 1
    /\ evals[1].ref = 1
    /\ evals[1].cur = 3
    /\ initial.idx = 3

\* C11 as stated: a non-retryable failure (body that is not JSON, JSON body
\* without a ticker field, HTTP 4xx) ends the fetch with the RuntimeError of
\* a network failure, after one attempt at that answer and no retry.
C11_NonRetryableIsRuntimeError ==
    last \in NonRetryable =>
        /\ pc = "failed"
        /\ err = "RuntimeError"
        /\ attempts = failures + 1

\* the current fetch has ended with an exception of get_prices
FetchFailed == pc = "failed" /\ last \in NonRetryable \cup {"transient"}

\* C12 as stated: one tick sleep follows every fetch, successful or failed, so
\* the sleeps taken equal the fetches made, the failed one included.
C12_SleepAfterEveryFetch ==
    /\ pc \in {"get", "attempt"} => sleeps = n
    /\ FetchFailed => sleeps = n + 1

\* C12 amended: one tick sleep follows every sample that the loop has fully
\* processed, so exactly one sleep lies between two consecutive fetches; a
\* failed fetch is followed by no sleep.
C12_OneSleepBetweenFetches ==
    /\ pc \in {"get", "attempt"} => sleeps = n
    /\ pc \in {"decide", "compare", "reset", "report", "sleep"} => sleeps = n - 1
    /\ FetchFailed => sleeps = n
    /\ sleeps \in {n - 1, n} /\ sleeps >= 0

C12_Witness ==
    /\ FetchFailed
    /\ n >= 2
    /\ sleeps = n

\* C13: an evaluation against a reference of price 0 raises ZeroDivisionError,
\* which ends monitor() with that error: nothing is printed for the
\* evaluation, the reference stays, and no further step is taken.
C13_DivisionByZeroIsFatal ==
    /\ [](err = "ZeroDivisionError" =>
            /\ pc = "failed"
            /\ ~interrupted
            /\ initial.price = 0
            /\ initial = Or(refAtYield, update)
            /\ Evaluated(update.idx)
            /\ ~Alerted(update.idx)
            /\ ~PriceLine(update.idx))
    /\ [][(pc = "compare" /\ initial.price = 0 /\ ~interrupted') =>
            (pc' = "failed" /\ err' = "ZeroDivisionError" /\ out' = out
             /\ initial' = initial)]_vars
    /\ [][err = "ZeroDivisionError" => UNCHANGED vars]_vars

C13_Witness ==
    /\ err = "ZeroDivisionError"
    /\ pc = "failed"
    /\ refAtYield # None
    /\ update.price > 0
    /\ n >= 2

\* C14: the reference is None only until line 30 has run for the first sample;
\* from then on it is a sample that get_prices yielded in this run (it only
\* ever changes to the current sample) and it never becomes None again.
C14_ReferenceNoneOnlyBeforeFirstSample ==
    /\ [](initial = None =>
            \/ n = 0
            \/ /\ n = 1
               /\ pc \in {"decide", "stopped"}
               /\ evals = <<>>
               /\ ReportLines = <<>>)
    /\ [](initial # None =>
            /\ initial.idx \in 1..n
            /\ initial.price \in Prices
            /\ initial.idx = update.idx => initial = update)
    /\ [][initial # None => initial' # None]_vars
    /\ [][initial' # initial => (initial' = update /\ update' = update)]_vars

C14_Witness ==
    /\ initial # None
    /\ initial.idx >= 2
    /\ initial.idx < n
    /\ pc = "sleep"

\* C15: a completed evaluation always prints the current-price line, with or
\* without an alert; the alert is printed only when the change is beyond the
\* threshold and then directly before the price line; the sample report of
\* the same tick comes after both.
C15_PriceLineAfterOptionalAlert ==
    LET k == Len(out)
        i == update.idx
    IN  /\ pc = "reset" =>
              /\ k >= 1
              /\ out[k] = Line("price", "", i)
              /\ Alerted(i) =>
                    /\ k >= 2
                    /\ out[k - 1].kind = "alert"
                    /\ out[k - 1].idx = i
                    /\ 100 * Abs(update.price - initial.price) >
                          percent_threshold * Abs(initial.price)
              /\ ReportedExactly(n - 1)
        /\ (pc = "sleep" /\ Evaluated(i)) =>
              /\ k >= 2
              /\ out[k] = Line("report", "", i)
              /\ out[k - 1] = Line("price", "", i)
        /\ \A j \in 1..k :
              out[j].kind \in {"alert", "price"} => Evaluated(out[j].idx)

C15_Witness ==
    /\ pc = "sleep"
    /\ Evaluated(n)
    /\ ~Alerted(n)
    /\ PriceLine(n)
    /\ \E i \in 1..(n - 1) : Alerted(i) /\ PriceLine(i)

\* the verdict for reference price a > 0, current price b and threshold t
ExpectedVerdict(a, b, t) ==
    IF 100 * Abs(b - a) > t * a
       THEN (IF b > a THEN "increased" ELSE "decreased")
       ELSE "silent"

\* the lines a verdict for sample i shows as
LinesOfVerdict(v, i) ==
    (IF v = "silent" THEN <<>> ELSE <<Line("alert", v, i)>>)
    \o <<Line("price", "", i)>>

\* C16: threshold, window length and endpoint never change; a fetch leaves the
\* reference alone; compare_prices changes no state of the monitor, and what
\* it prints is fixed by the two prices and the threshold alone.
C16_ConfigurationAndEvaluatorFrame ==
    /\ [][/\ percent_threshold' = percent_threshold
          /\ time_interval' = time_interval
          /\ api_endpoint' = api_endpoint]_vars
    /\ [][(pc \in {"get", "attempt"}) => initial' = initial]_vars
    /\ [][pc = "compare" =>
            /\ initial' = initial
            /\ update' = update
            /\ now' = now
            /\ n' = n
            /\ (pc' = "reset" =>
                  out' = out \o LinesOfVerdict(
                            ExpectedVerdict(initial.price, update.price, percent_threshold),
                            update.idx))]_vars

C16_Witness ==
    /\ pc = "sleep"
    /\ Len(evals) >= 2
    /\ Alerted(n)
    /\ \E i \in 1..(n - 1) : PriceLine(i) /\ ~Alerted(i)
    /\ initial = update
    /\ percent_threshold = 1

\* the alert lines printed so far, in order
IsAlertLine(l) == l.kind = "alert"

AlertLines == SelectSeq(out, IsAlertLine)

\* C17: with strictly increasing sample timestamps, each evaluation after the
\* first has the previous evaluation's current sample as its reference and
\* comes at least time_interval later; no sample is the current sample of
\* two evaluations, so a window gives at most one alert.
C17_EvaluationsChained ==
    LET a == AlertLines IN
    (\A d \in spacings : d > 0) =>
        /\ \A j \in 2..Len(evals) :
              /\ evals[j].ref = evals[j - 1].cur
              /\ evals[j].refTs = evals[j - 1].curTs
              /\ evals[j].cur > evals[j - 1].cur
              /\ evals[j].curTs - evals[j - 1].curTs >= time_interval
        /\ \A j \in 2..Len(a) : a[j].idx > a[j - 1].idx
        /\ \A j \in 1..Len(a) : Evaluated(a[j].idx)

C17_Witness ==
    /\ time_interval >= 2
    /\ Len(evals) >= 2
    /\ Len(AlertLines) >= 2
    /\ evals[2].curTs - evals[1].curTs > time_interval
    /\ spacings # {}

\* the verdict the output shows for the evaluation of sample i
VerdictShown(i) ==
    IF Alerted(i)
       THEN (CHOOSE l \in {out[k] : k \in 1..Len(out)} :
                l.kind = "alert" /\ l.idx = i).dir
       ELSE "silent"

\* C18: the verdict of a window is a function of its reference price, its
\* closing price and the threshold, whatever the samples inside the window
\* were; so two windows with the same endpoints and threshold get the same
\* verdict, and an excursion beyond the threshold that has reverted by the
\* closing sample gives no alert.
C18_VerdictDependsOnEndpointsOnly ==
    (pc = "reset" /\ initial.price > 0) =>
        /\ VerdictShown(update.idx) =
              ExpectedVerdict(initial.price, update.price, percent_threshold)
        /\ (/\ excursion
            /\ 100 * Abs(update.price - initial.price)
                  <= percent_threshold * initial.price) => ~Alerted(update.idx)

C18_Witness ==
    /\ pc = "reset"
    /\ excursion
    /\ percent_threshold >= 0
    /\ initial.price > 0
    /\ update.price = initial.price
    /\ ~Alerted(update.idx)
    /\ PriceLine(update.idx)

\* the reference r has been evaluated against a later sample that replaced it
ClosedAndReplaced(r) ==
    \E j \in 1..Len(evals) :
        /\ evals[j].ref = r
        /\ evals[j].curTs - evals[j].refTs >= time_interval
        /\ initial.idx = evals[j].cur
        /\ pc = "report"

\* C19: in the undisturbed run the loop never ends (no error, no stop; it goes
\* on to every sample the model allows), and every reference is eventually
\* evaluated against a later sample that replaces it, for every reference
\* whose window fits into the samples of the model.
C19_EveryWindowEventuallyCloses ==
    /\ [](pc \in Running /\ err = "none")
    /\ <>(n = MaxSamples /\ pc = "get")
    /\ \A r \in 1..MaxSamples :
          (initial.idx = r /\ pc = "report" /\ n = r
             /\ r + time_interval <= MaxSamples /\ r < MaxSamples)
          ~> (ClosedAndReplaced(r) /\ initial.idx > r)

C19_Witness ==
    /\ time_interval >= 2
    /\ Len(evals) >= 2
    /\ ClosedAndReplaced(evals[2].ref)
    /\ evals[2].ref > 1

====
